---- MODULE Spec2Model ----
(***************************************************************************)
(* The inference pipeline of backend/main.py: the process-wide model       *)
(* handle (model, model_load_error), the startup load (lifespan), the      *)
(* on-demand load (load_model_safe), image normalisation                   *)
(* (preprocess_image), the forward pass dispatched to a worker thread      *)
(* (predict_async) and the two request handlers (health_check, predict).   *)
(* Python None is the string "None" for optional strings, the record None  *)
(* for the model handle and 0 for an unknown dimension of a shape.         *)
(* Python tuples and lists are 0-based, TLA+ sequences 1-based.            *)
(***************************************************************************)
EXTENDS Integers, Sequences, FiniteSets

\* ---------------------------------------------------------------- bounds
NumReqs == 2

Reqs == 1..NumReqs

\* --------------------------------------------------------- configuration
LABELS == <<"Semilooper", "Spodoptera", "Healthy Leaf">>
IMAGE_SIZE == <<224, 224>>
MAX_FILE_SIZE == 20 * 1024 * 1024

NoneStr == "None"
NotFoundMsg == "Model file not found at MODEL_PATH"
NoShapeMsg == "The layer has never been called and thus has no defined input shape."

\* ------------------------------------------------------- the model handle
None == [kind |-> "None", hasShape |-> FALSE, input_shape |-> <<>>, outs |-> 0]

KerasModel(known, shape, n) ==
    [kind |-> "Model", hasShape |-> known, input_shape |-> shape, outs |-> n]

\* The model objects the artifact at MODEL_PATH may deserialize to: the
\* declared input shape is (None, H, W, C), a dimension may be unknown, the
\* attribute may be missing altogether, and the output layer has `outs` units.
Artifacts ==
    { KerasModel(TRUE, <<0, 224, 224, 3>>, 3),
      KerasModel(TRUE, <<0, 224, 299, 3>>, 3),
      KerasModel(TRUE, <<0, 0, 0, 3>>, 3),
      KerasModel(TRUE, <<0, 224, 224, 1>>, 3),
      KerasModel(TRUE, <<0, 224, 224, 3>>, 4),
      KerasModel(FALSE, <<>>, 3) }

\* What is on disk at MODEL_PATH: nothing, a file tf.keras cannot
\* deserialize (its exception has a message, or an empty one), or the artifact.
DiskStates == {"absent", "corrupt", "corruptSilent", "good"}

\* ------------------------------------------------------------ the uploads
ContentTypes == {NoneStr, "text/plain", "image/jpeg"}

\* not file.content_type or not file.content_type.startswith("image/")
InvalidFileType(ct) == ct \in {NoneStr, ""} \/ ct \notin {"image/jpeg", "image/png"}

NotAnImage == [w |-> 0, h |-> 0, mode |-> "none", lo |-> 0, hi |-> 0]
Picture(w, h, mode, lo, hi) == [w |-> w, h |-> h, mode |-> mode, lo |-> lo, hi |-> hi]

\* An upload: its length in bytes and the picture its bytes encode.
Bodies ==
    { [len |-> 12, img |-> NotAnImage],
      [len |-> MAX_FILE_SIZE, img |-> Picture(300, 400, "L", 0, 255)],
      [len |-> MAX_FILE_SIZE + 1, img |-> Picture(224, 224, "RGB", 100, 200)] }

NoBody == [len |-> 0 - 1, img |-> NotAnImage]

VARIABLES
    disk,              \* what is on disk at MODEL_PATH
    model,             \* the global model handle
    model_load_error,  \* the global last load error
    started,           \* the application accepts requests
    lastLoad,          \* what the last call of load_model_safe returned and did
    loop,              \* the request holding the event-loop thread, 0 when free
    req                \* the requests

vars == <<disk, model, model_load_error, started, lastLoad, loop, req>>

\* ------------------------------------------------------------- exceptions
NoTensor == [shape |-> <<>>, lo |-> 0, hi |-> 0, den |-> 1]

Raise(type, msg) ==
    [raised |-> TRUE, type |-> type, msg |-> msg, tensor |-> NoTensor, preds |-> <<>>]
ReturnTensor(t) ==
    [raised |-> FALSE, type |-> "", msg |-> <<>>, tensor |-> t, preds |-> <<>>]
ReturnPreds(v) ==
    [raised |-> FALSE, type |-> "", msg |-> <<>>, tensor |-> NoTensor, preds |-> v]
Pending == [raised |-> FALSE, type |-> "pending", msg |-> <<>>, tensor |-> NoTensor, preds |-> <<>>]

\* ------------------------------------------------------------ Model Loader
\* tf.keras.models.load_model(MODEL_PATH, compile=False) on a file that exists
Deserialize(d, a) ==
    CASE d = "corrupt" -> [raised |-> TRUE, msg |-> "Unable to open file", obj |-> None]
      [] d = "corruptSilent" -> [raised |-> TRUE, msg |-> "", obj |-> None]
      [] OTHER -> [raised |-> FALSE, msg |-> "", obj |-> a]

\* str(e) of the exception the deserialization raised
StrE(e) == e.msg

\* print(f"... {model.input_shape}") / print(f"... {model.output_shape}") after the
\* handle is assigned: raises when the model object has no defined input shape
ShapeLogRaises(m) == ~m.hasShape

\* load_model_safe(): the handle and the error it leaves, what it returns (ok)
\* and whether it deserialized the artifact (deser)
LoadResult(m, err, ok, deser) == [model |-> m, err |-> err, ok |-> ok, deser |-> deser]

\* load_model_safe() without its early return: it loads whatever the handle holds
load_model_safe_reload(m, err, d, a) ==
    IF d = "absent" THEN LoadResult(m, NotFoundMsg, FALSE, FALSE)
    ELSE IF Deserialize(d, a).raised
         THEN LoadResult(m, StrE(Deserialize(d, a)), FALSE, TRUE)
    ELSE IF ShapeLogRaises(Deserialize(d, a).obj)
         THEN LoadResult(Deserialize(d, a).obj, NoShapeMsg, FALSE, TRUE)
    ELSE LoadResult(Deserialize(d, a).obj, NoneStr, TRUE, TRUE)

load_model_safe(m, err, d, a) ==
    IF m # None THEN LoadResult(m, err, TRUE, FALSE)
    ELSE IF d = "absent" THEN LoadResult(m, NotFoundMsg, FALSE, FALSE)
    ELSE IF Deserialize(d, a).raised
         THEN LoadResult(m, StrE(Deserialize(d, a)), FALSE, TRUE)
    ELSE IF ShapeLogRaises(Deserialize(d, a).obj)
         THEN LoadResult(Deserialize(d, a).obj, NoShapeMsg, FALSE, TRUE)
    ELSE LoadResult(Deserialize(d, a).obj, NoneStr, TRUE, TRUE)

\* the startup load of lifespan(): no early return, the same three outcomes
lifespan_load(m, err, d, a) ==
    IF d = "absent" THEN LoadResult(m, NotFoundMsg, FALSE, FALSE)
    ELSE IF Deserialize(d, a).raised
         THEN LoadResult(m, StrE(Deserialize(d, a)), FALSE, TRUE)
    ELSE IF ShapeLogRaises(Deserialize(d, a).obj)
         THEN LoadResult(Deserialize(d, a).obj, NoShapeMsg, FALSE, TRUE)
    ELSE LoadResult(Deserialize(d, a).obj, NoneStr, TRUE, TRUE)

\* --------------------------------------------------------- Image Normalizer
\* Image.open(BytesIO(image_bytes))
ImageOpen(body) ==
    IF body.img = NotAnImage THEN Raise("UnidentifiedImageError", <<"cannot identify image file">>)
    ELSE ReturnTensor(NoTensor)

\* img.convert("RGB")
ConvertRGB(img) == [img EXCEPT !.mode = "RGB"]

\* the target size: (shape[1], shape[2]) of model.input_shape when the model is
\* loaded, has the attribute, and both entries are truthy; else IMAGE_SIZE
TargetSize(m) ==
    IF m # None /\ m.hasShape /\ Len(m.input_shape) > 0
    THEN IF Len(m.input_shape) >= 3 /\ m.input_shape[2] # 0 /\ m.input_shape[3] # 0
         THEN <<m.input_shape[2], m.input_shape[3]>>
         ELSE IMAGE_SIZE
    ELSE IMAGE_SIZE

\* PIL's Image.resize(size): size is (width, height)
Resize(img, size) == [img EXCEPT !.w = size[1], !.h = size[2]]

\* np.array(img).astype(np.float32) / 255.0: an array of shape (height, width)
\* for a single-band picture and (height, width, bands) otherwise; an element is
\* num/den with lo <= num <= hi
Bands(mode) == CASE mode = "L" -> 1 [] mode = "RGB" -> 3 [] mode = "RGBA" -> 4 [] OTHER -> 0
NpArray(img) ==
    [shape |-> IF Bands(img.mode) = 1 THEN <<img.h, img.w>> ELSE <<img.h, img.w, Bands(img.mode)>>,
     lo |-> img.lo, hi |-> img.hi, den |-> 255]

\* np.stack([a]*3, axis=-1) when ndim == 2, np.concatenate([a]*3, axis=-1) when
\* the last axis has length 1
EnsureThree(a) ==
    IF Len(a.shape) = 2 THEN [a EXCEPT !.shape = a.shape \o <<3>>]
    ELSE IF a.shape[Len(a.shape)] = 1
         THEN [a EXCEPT !.shape = SubSeq(a.shape, 1, Len(a.shape) - 1) \o <<3>>]
    ELSE a

\* np.expand_dims(a, axis=0)
ExpandDims(a) == [a EXCEPT !.shape = <<1>> \o a.shape]

\* preprocess_image(image_bytes): every exception leaves as ValueError
preprocess_image(body, m) ==
    IF ImageOpen(body).raised
    THEN Raise("ValueError", <<"Failed to process image: ">> \o ImageOpen(body).msg)
    ELSE ReturnTensor(ExpandDims(EnsureThree(NpArray(Resize(ConvertRGB(body.img), TargetSize(m))))))

\* -------------------------------------------------------- Inference Executor
\* Keras checks the batch against the declared input shape, where it has one
Compatible(m, shape) ==
    ~m.hasShape
    \/ /\ Len(shape) = Len(m.input_shape)
       /\ \A i \in 2..Len(shape) : m.input_shape[i] = 0 \/ m.input_shape[i] = shape[i]

\* the probability vectors a model of n outputs may emit: all the mass on one
\* class, for each class, and the uniform vector (a tie of every class)
Outputs(n) ==
    { [i \in 1..n |-> IF i = k THEN 1 ELSE 0] : k \in 1..n } \cup { [i \in 1..n |-> 1] }

\* model.predict(img_array, verbose=0) on the worker thread: what it may end with
ModelPredict(m, t) ==
    IF ~Compatible(m, t.shape)
    THEN { Raise("ValueError", <<"Input 0 of layer is incompatible with the layer">>) }
    ELSE { ReturnPreds(<<v>>) : v \in Outputs(m.outs) }
         \cup { Raise("ResourceExhaustedError", <<"OOM when allocating tensor">>) }

\* an arg-max that takes the last maximum
ArgmaxLast(v) ==
    (CHOOSE i \in 1..Len(v) :
        /\ \A j \in 1..Len(v) : v[j] <= v[i]
        /\ \A j \in (i + 1)..Len(v) : v[j] < v[i]) - 1

\* np.argmax: the 0-based position of the first maximum
Argmax(v) ==
    (CHOOSE i \in 1..Len(v) :
        /\ \A j \in 1..Len(v) : v[j] <= v[i]
        /\ \A j \in 1..(i - 1) : v[j] < v[i]) - 1

\* ------------------------------------------------------------ the requests
NoResp == [status |-> 0, detail |-> <<>>, state |-> "", label |-> "", index |-> 0 - 1,
           probabilities |-> <<>>]

\* raise HTTPException(status_code=..., detail=...) reaching the framework
HttpError(status, detail) == [NoResp EXCEPT !.status = status, !.detail = detail]

\* str(e) of an HTTPException: "<status>: <detail>"
HTTPException(status, detail) == Raise("HTTPException", <<status, ": ">> \o detail)

Idle == [pc |-> "idle", kind |-> "", ct |-> "", ok |-> "none", body |-> NoBody,
         tensor |-> NoTensor, result |-> Pending, resp |-> NoResp]

\* a step of a handler runs on the event-loop thread: it needs the thread free,
\* or held by the very request it continues
CanRun(r) == loop = 0 \/ loop = r

\* the forward pass called on the event-loop thread itself: the thread is held
\* by the request until the call ends
RunOnEventLoop(r) == r

\* await run_in_threadpool(f, ...): the call goes to a worker thread and the
\* coroutine yields, so the event-loop thread is free while the call runs
RunInThreadpool(r) == 0

\* the two except clauses of predict, in their order
ExceptClauses(e) ==
    IF e.type = "ValueError" THEN HttpError(400, e.msg)
    ELSE HttpError(500, <<"Prediction failed: ">> \o e.msg)

\* detail = model_load_error or "Model not loaded"; raise HTTPException(503, ...)
ServiceUnavailable(err) ==
    HttpError(503, <<"Model not loaded: ",
                     IF err \in {NoneStr, ""} THEN "Model not loaded" ELSE err>>)

\* lines 224-229: the content-type check, then the suspension at file.read()
Validate(ct) ==
    IF InvalidFileType(ct)
    THEN [pc |-> "done", resp |-> HttpError(400, <<"Invalid file type: ", ct, ". Must be an image.">>)]
    ELSE [pc |-> "reading", resp |-> NoResp]

\* the content-type check made before the outcome of the load is looked at
AfterGateValidateFirst(ok, err, ct) ==
    IF InvalidFileType(ct) THEN Validate(ct)
    ELSE IF ~ok THEN [pc |-> "done", resp |-> ServiceUnavailable(err)]
    ELSE Validate(ct)

\* lines 220-229: what follows the on-demand load, given what it returned
AfterGate(ok, err, ct) ==
    IF ~ok THEN [pc |-> "done", resp |-> ServiceUnavailable(err)]
    ELSE Validate(ct)

\* lines 236-249: from the body read to the dispatch of the forward pass; either
\* an exception raised inside the try block, or the tensor handed to the worker
TryBody(body, m) ==
    IF body.len > MAX_FILE_SIZE
    THEN HTTPException("413", <<"File too large. Maximum size is ", "20.0", " MB">>)
    ELSE IF preprocess_image(body, m).raised THEN preprocess_image(body, m)
    ELSE IF m = None THEN Raise("RuntimeError", <<"Model is not loaded">>)
    ELSE preprocess_image(body, m)

\* lines 252-267: the response assembled from the predictions
Assemble(predictions) ==
    LET probabilities == predictions[1]
        predicted_index == Argmax(predictions[1])
    IN  IF predicted_index + 1 > Len(LABELS)
        THEN ExceptClauses(Raise("IndexError", <<"list index out of range">>))
        ELSE [NoResp EXCEPT !.status = 200,
                            !.label = LABELS[predicted_index + 1],
                            !.index = predicted_index,
                            !.probabilities = probabilities]

\* ------------------------------------------------------------------ actions
Init ==
    /\ disk \in DiskStates
    /\ model = None
    /\ model_load_error = NoneStr
    /\ started = FALSE
    /\ lastLoad = [called |-> FALSE, ok |-> FALSE, deser |-> FALSE]
    /\ loop = 0
    /\ req = [r \in Reqs |-> Idle]

\* the artifact at MODEL_PATH appears, disappears or is replaced; the file is
\* read by a load only, and a load reads it only while the handle is unloaded
DiskChange(d) ==
    /\ d # disk
    /\ model = None
    /\ disk' = d
    /\ UNCHANGED <<model, model_load_error, started, lastLoad, loop, req>>

\* lifespan(): the startup load, then the application serves
Lifespan(a) ==
    /\ ~started
    /\ LET res == lifespan_load(model, model_load_error, disk, a)
       IN  /\ model' = res.model
           /\ model_load_error' = res.err
    /\ started' = TRUE
    /\ UNCHANGED <<disk, lastLoad, loop, req>>

\* TestClient(app) used without its context manager: requests are served and
\* the startup load never ran
ServeWithoutLifespan ==
    /\ ~started
    /\ started' = TRUE
    /\ UNCHANGED <<disk, model, model_load_error, lastLoad, loop, req>>

\* load_model_safe() called on its own
LoadModelSafeCall(a) ==
    /\ started
    /\ loop = 0
    /\ LET res == load_model_safe(model, model_load_error, disk, a)
       IN  /\ model' = res.model
           /\ model_load_error' = res.err
           /\ lastLoad' = [called |-> TRUE, ok |-> res.ok, deser |-> res.deser]
    /\ UNCHANGED <<disk, started, loop, req>>

\* a health check that reports the readiness of the model handle
HealthCheckReady(r) ==
    /\ started
    /\ loop = 0
    /\ req[r].pc = "idle"
    /\ req' = [req EXCEPT ![r] = [Idle EXCEPT !.pc = "done", !.kind = "health",
                                              !.resp = IF model = None
                                                       THEN ServiceUnavailable(model_load_error)
                                                       ELSE [NoResp EXCEPT !.status = 200,
                                                                           !.state = "ok"]]]
    /\ UNCHANGED <<disk, model, model_load_error, started, lastLoad, loop>>

\* GET /health
HealthCheck(r) ==
    /\ started
    /\ loop = 0
    /\ req[r].pc = "idle"
    /\ req' = [req EXCEPT ![r] = [Idle EXCEPT !.pc = "done", !.kind = "health",
                                              !.resp = [NoResp EXCEPT !.status = 200,
                                                                      !.state = "ok"]]]
    /\ UNCHANGED <<disk, model, model_load_error, started, lastLoad, loop>>

\* POST /predict, to its first suspension: with the handle loaded the gate is
\* passed and the content type checked; with the handle unloaded the handler
\* enters load_model_safe(), a synchronous call on the event-loop thread
PredictAccept(r, ct) ==
    /\ started
    /\ loop = 0
    /\ req[r].pc = "idle"
    /\ IF model # None
       THEN /\ req' = [req EXCEPT ![r] = [Idle EXCEPT !.kind = "predict", !.ct = ct,
                                                      !.pc = Validate(ct).pc,
                                                      !.resp = Validate(ct).resp]]
            /\ loop' = loop
       ELSE /\ req' = [req EXCEPT ![r] = [Idle EXCEPT !.kind = "predict", !.ct = ct,
                                                      !.pc = "loading"]]
            /\ loop' = r
    /\ UNCHANGED <<disk, model, model_load_error, started, lastLoad>>

\* load_model_safe() returns to predict, which raises 503 or goes on to the
\* content-type check
LoadDone(r, a) ==
    /\ req[r].pc = "loading"
    /\ CanRun(r)
    /\ LET res == load_model_safe(model, model_load_error, disk, a)
           nxt == AfterGate(res.ok, res.err, req[r].ct)
       IN  /\ model' = res.model
           /\ model_load_error' = res.err
           /\ lastLoad' = [called |-> TRUE, ok |-> res.ok, deser |-> res.deser]
           /\ req' = [req EXCEPT ![r].ok = IF res.ok THEN "true" ELSE "false",
                                 ![r].pc = nxt.pc,
                                 ![r].resp = nxt.resp]
    /\ loop' = 0
    /\ UNCHANGED <<disk, started>>

\* await file.read() returns the body: size check, normalisation and the
\* dispatch of the forward pass, or the except clause of what was raised
ReadDone(r, body) ==
    /\ req[r].pc = "reading"
    /\ CanRun(r)
    /\ LET out == TryBody(body, model)
       IN  IF out.raised
           THEN /\ req' = [req EXCEPT ![r].body = body, ![r].pc = "done",
                                      ![r].resp = ExceptClauses(out)]
                /\ loop' = 0
           ELSE /\ req' = [req EXCEPT ![r].body = body, ![r].pc = "inferring",
                                      ![r].tensor = out.tensor]
                /\ loop' = RunInThreadpool(r)
    /\ UNCHANGED <<disk, model, model_load_error, started, lastLoad>>

\* the worker thread ends model.predict: predictions, or an exception
WorkerDone(r, out) ==
    /\ req[r].pc = "inferring"
    /\ out \in ModelPredict(model, req[r].tensor)
    /\ req' = [req EXCEPT ![r].result = out, ![r].pc = "inferred"]
    /\ UNCHANGED <<disk, model, model_load_error, started, lastLoad, loop>>

\* predict resumes after the await: the response, or the except clause of what
\* the forward pass raised
Resume(r) ==
    /\ req[r].pc = "inferred"
    /\ CanRun(r)
    /\ req' = [req EXCEPT ![r].pc = "done",
                          ![r].resp = IF req[r].result.raised
                                      THEN ExceptClauses(req[r].result)
                                      ELSE Assemble(req[r].result.preds)]
    /\ loop' = 0
    /\ UNCHANGED <<disk, model, model_load_error, started, lastLoad>>

Next ==
    \/ \E d \in DiskStates : DiskChange(d)
    \/ \E a \in Artifacts : Lifespan(a)
    \/ ServeWithoutLifespan
    \/ \E a \in Artifacts : LoadModelSafeCall(a)
    \/ \E r \in Reqs : HealthCheck(r)
    \/ \E r \in Reqs, ct \in ContentTypes : PredictAccept(r, ct)
    \/ \E r \in Reqs, a \in Artifacts : LoadDone(r, a)
    \/ \E r \in Reqs, body \in Bodies : ReadDone(r, body)
    \/ \E r \in Reqs : \E out \in ModelPredict(model, req[r].tensor) : WorkerDone(r, out)
    \/ \E r \in Reqs : Resume(r)

Spec == Init /\ [][Next]_vars

\* ------------------------------------------------------------------ claims
Finished(r) == req[r].pc = "done"
IsPredict(r) == req[r].kind = "predict"
Status(r) == req[r].resp.status

\* C1: a POST /predict with an image content type and a handle that is (or gets)
\* loaded, whose body is longer than 20 MiB, ends with status 413.
C1_TooLargeEndsWith413 ==
    \A r \in Reqs :
        (Finished(r) /\ IsPredict(r) /\ req[r].body.len > 20 * 1024 * 1024)
            => Status(r) = 413

\* C2: a POST /predict whose content type is missing or does not start with
\* image/ ends with status 400 and a detail containing "Invalid file type", in
\* every state of the model handle, and its body is never read.
C2_InvalidTypeEndsWith400 ==
    \A r \in Reqs :
        (Finished(r) /\ IsPredict(r) /\ req[r].ct \notin {"image/jpeg", "image/png"})
            => /\ Status(r) = 400
               /\ req[r].resp.detail[1] = "Invalid file type: "
               /\ req[r].body = NoBody

\* C3: a request that fails in normalisation ends with 400, and a request whose
\* forward pass raised, whatever was raised, ends with 500 and never with 400.
C3_OutcomeByFailedStep ==
    \A r \in Reqs :
        (Finished(r) /\ IsPredict(r))
            => /\ (/\ req[r].body # NoBody
                   /\ req[r].body.len <= 20 * 1024 * 1024
                   /\ req[r].body.img = NotAnImage) => Status(r) = 400
               /\ req[r].result.raised => Status(r) = 500

C5_TensorHasTargetShape ==
    \A r \in Reqs :
        req[r].tensor # NoTensor
            => LET known == /\ model # None
                            /\ model.hasShape
                            /\ model.input_shape[2] # 0
                            /\ model.input_shape[3] # 0
                   H == IF known THEN model.input_shape[2] ELSE 224
                   W == IF known THEN model.input_shape[3] ELSE 224
               IN  /\ req[r].tensor.shape = <<1, H, W, 3>>
                   /\ 0 <= req[r].tensor.lo
                   /\ req[r].tensor.lo <= req[r].tensor.hi
                   /\ req[r].tensor.hi <= req[r].tensor.den

C7_LoadIsIdempotent ==
    [][\A a \in Artifacts :
        (LoadModelSafeCall(a) /\ model # None)
            => /\ model' = model
               /\ model_load_error' = model_load_error
               /\ lastLoad' = [called |-> TRUE, ok |-> TRUE, deser |-> FALSE]
    ]_vars

\* C7 witness: the handle is loaded and the last call of load_model_safe
\* returned success without deserializing.
C7_Witness ==
    /\ model # None
    /\ lastLoad = [called |-> TRUE, ok |-> TRUE, deser |-> FALSE]

\* C8: GET /health ends at once with 200 {"status": "ok"} whatever the state of
\* the handle, and changes neither the handle nor the recorded error.
C8_HealthAlwaysOk ==
    [][\A r \in Reqs :
        (req[r].pc = "idle" /\ req'[r].kind = "health")
            => /\ req'[r].pc = "done"
               /\ req'[r].resp.status = 200
               /\ req'[r].resp.state = "ok"
               /\ req'[r].resp.detail = <<>>
               /\ model' = model
               /\ model_load_error' = model_load_error
               /\ lastLoad' = lastLoad
    ]_vars

\* C8 witness: a health check answered 200 while the handle is unloaded and a
\* failed deserialization is recorded.
C8_Witness ==
    \E r \in Reqs :
        /\ req[r].kind = "health" /\ Finished(r) /\ Status(r) = 200
        /\ model = None
        /\ model_load_error \notin {NoneStr, NotFoundMsg}

\* C9: while a POST /predict is suspended at the body read or at the forward
\* pass, the event-loop thread is free: a new GET /health or POST /predict can
\* be accepted, and the other requests in flight can take their next step.
C9_SuspendedDoesNotBlock ==
    \A r \in Reqs :
        req[r].pc \in {"reading", "inferring"}
            => \A s \in Reqs \ {r} :
                /\ req[s].pc = "idle"
                      => /\ ENABLED HealthCheck(s)
                         /\ \A ct \in ContentTypes : ENABLED PredictAccept(s, ct)
                /\ req[s].pc = "reading" => \A b \in Bodies : ENABLED ReadDone(s, b)
                /\ req[s].pc = "inferred" => ENABLED Resume(s)

\* C9 witness: request r loaded the model on demand and is still awaiting its
\* forward pass; request s passed the gate without loading, so it was accepted
\* after r's load, and it has already ended with 200.
C9_Witness ==
    \E r, s \in Reqs :
        /\ req[r].pc = "inferring" /\ req[r].ok = "true"
        /\ IsPredict(s) /\ Finished(s) /\ req[s].ok = "none" /\ Status(s) = 200

\* C10: the handle and the error agree in every step: a loaded handle has no
\* recorded error, load_model_safe returns success exactly when it leaves the
\* handle loaded, and a loaded handle is never replaced or unloaded.
C10_HandleAndErrorAgree ==
    [][/\ model' # None => model_load_error' = NoneStr
       /\ model # None => model' = model
       /\ \A a \in Artifacts :
            (LoadModelSafeCall(a) \/ \E r \in Reqs : LoadDone(r, a))
                => (lastLoad'.ok <=> model' # None)
    ]_vars

====
